---- MODULE Spec2Model ----
(***************************************************************************)
(* Model of src/blame_all.py: the BlameShowAll text command (toggle,       *)
(* git-blame invocation, per-line parsing, phantom formatting), the        *)
(* BlameEraseAll command and the BlameEraseAllListener modification hook.   *)
(*                                                                         *)
(* Text is modelled as a tuple of one-character strings, so that the       *)
(* regular expression of prepare_pattern is matched character by           *)
(* character, with Python's backtracking priorities.                       *)
(***************************************************************************)
EXTENDS Integers, Sequences, FiniteSets, TLC

(***************************************************************************)
(* Bounds of the model.                                                    *)
(***************************************************************************)
\* longest blame output, in lines
MaxLines == 2
\* most modification notifications queued and not yet delivered
MaxPending == 1
\* most configured extra blame flags
MaxFlags == 2

(***************************************************************************)
(* Module constants of blame_all.py.                                       *)
(***************************************************************************)
SETTING_PHANTOM_ALL_DISPLAYED == "git-blame-all-displayed"

(***************************************************************************)
(* Character classes of the regular expression.                            *)
(***************************************************************************)
Digit == {"0", "1", "2", "3", "4", "5", "6", "7", "8", "9"}
Letter ==
  {"a", "b", "c", "d", "e", "f", "g", "h", "i", "j", "k", "l", "m",
   "n", "o", "p", "q", "r", "s", "t", "u", "v", "w", "x", "y", "z",
   "A", "B", "C", "D", "E", "F", "G", "H", "I", "J", "K", "L", "M",
   "N", "O", "P", "Q", "R", "S", "T", "U", "V", "W", "X", "Y", "Z"}
\* \s
Whitespace == {" ", "\t", "\n", "\r", "\f"}
\* \w
WordChar == Letter \cup Digit \cup {"_"}

\* A class is a set of characters, possibly negated.
In(c, cls) == IF cls.neg THEN c \notin cls.chars ELSE c \in cls.chars
Cls(chars) == [neg |-> FALSE, chars |-> chars]
NotCls(chars) == [neg |-> TRUE, chars |-> chars]

\* One item of the pattern: a class repeated lo..hi times (hi = -1: no upper
\* limit), greedy or lazy.
Item(cls, lo, hi, lazy) == [cls |-> cls, lo |-> lo, hi |-> hi, lazy |-> lazy]
One(cls) == Item(cls, 1, 1, FALSE)
Opt(cls) == Item(cls, 0, 1, FALSE)
Plus(cls) == Item(cls, 1, -1, FALSE)
LazyPlus(cls) == Item(cls, 1, -1, TRUE)
Lit(c) == One(Cls({c}))

\* r"\s+"
s == <<Plus(Cls(Whitespace))>>
\* r"(?P<sha>\^?\w+)"
p_sha == <<Opt(Cls({"^"})), Plus(Cls(WordChar))>>
\* r"((?P<file>[\S ]+)\s+)"
p_file == <<Plus(NotCls(Whitespace \ {" "}))>> \o s
\* r"(?P<author>.+?)"
p_author == <<LazyPlus(NotCls({"\n"}))>>
\* r"(?P<date>\d{4}-\d{2}-\d{2})"
p_date == <<Item(Cls(Digit), 4, 4, FALSE), Lit("-"),
            Item(Cls(Digit), 2, 2, FALSE), Lit("-"),
            Item(Cls(Digit), 2, 2, FALSE)>>
\* r"(?P<time>\d{2}:\d{2}:\d{2})"
p_time == <<Item(Cls(Digit), 2, 2, FALSE), Lit(":"),
            Item(Cls(Digit), 2, 2, FALSE), Lit(":"),
            Item(Cls(Digit), 2, 2, FALSE)>>
\* r"(?P<timezone>[\+-]\d+)"
p_timezone == <<One(Cls({"+", "-"})), Plus(Cls(Digit))>>
\* r"(?P<line_number>\d+)"
p_line == <<Plus(Cls(Digit))>>

\* The compiled pattern: the concatenation built by prepare_pattern.
prepare_pattern ==
  p_sha \o s \o p_file \o <<Lit("(")>> \o p_author \o s \o p_date \o s
    \o p_time \o s \o p_timezone \o s \o p_line \o <<Lit(")"), Lit(" ")>>

\* First and last item of each named group in prepare_pattern.
GroupItems ==
  [sha |-> <<1, 2>>, file |-> <<4, 4>>, author |-> <<7, 7>>,
   date |-> <<9, 13>>, time |-> <<15, 19>>, timezone |-> <<21, 22>>,
   line_number |-> <<24, 24>>]

(***************************************************************************)
(* re.match: backtracking match of the pattern anchored at position 1.     *)
(***************************************************************************)
\* How many consecutive characters of str from position p are in cls.
RECURSIVE RunLen(_, _, _)
RunLen(str, p, cls) ==
  IF p <= Len(str) /\ In(str[p], cls) THEN 1 + RunLen(str, p + 1, cls) ELSE 0

\* The repetition counts item it can take at position p.
Counts(str, p, it) ==
  LET run == RunLen(str, p, it.cls)
      top == IF it.hi = -1 \/ run < it.hi THEN run ELSE it.hi
  IN  it.lo .. top

\* Whether items i.. of pat match str from position p.
RECURSIVE CanMatch(_, _, _, _)
CanMatch(pat, str, i, p) ==
  IF i > Len(pat) THEN TRUE
  ELSE \E k \in Counts(str, p, pat[i]) : CanMatch(pat, str, i + 1, p + k)

\* The position after each of the items i.., for the first alternative the
\* backtracking search finds: a greedy item tries its longest repetition
\* first, a lazy item its shortest.  Requires CanMatch(pat, str, i, p).
RECURSIVE MatchEnds(_, _, _, _)
MatchEnds(pat, str, i, p) ==
  IF i > Len(pat) THEN <<>>
  ELSE LET ok == {k \in Counts(str, p, pat[i]) :
                    CanMatch(pat, str, i + 1, p + k)}
           k == IF pat[i].lazy
                THEN CHOOSE x \in ok : \A y \in ok : x <= y
                ELSE CHOOSE x \in ok : \A y \in ok : x >= y
       IN  <<p + k>> \o MatchEnds(pat, str, i + 1, p + k)

None == [matched |-> FALSE]

\* pattern.match(blame): a match object (the item ends) or None.
pattern_match(blame) ==
  IF CanMatch(prepare_pattern, blame, 1, 1)
  THEN [matched |-> TRUE, ends |-> MatchEnds(prepare_pattern, blame, 1, 1)]
  ELSE None

\* m.group(name)
Group(blame, m, name) ==
  LET first == GroupItems[name][1]
      last == GroupItems[name][2]
      from == IF first = 1 THEN 1 ELSE m.ends[first - 1]
  IN  SubSeq(blame, from, m.ends[last] - 1)

\* m.groupdict()
groupdict(blame, m) ==
  [kind |-> "groupdict",
   sha |-> Group(blame, m, "sha"),
   file |-> Group(blame, m, "file"),
   author |-> Group(blame, m, "author"),
   date |-> Group(blame, m, "date"),
   time |-> Group(blame, m, "time"),
   timezone |-> Group(blame, m, "timezone"),
   line_number |-> Group(blame, m, "line_number")]

\* The exception raised by None.groupdict().
AttributeError == [kind |-> "AttributeError"]

\* BlameShowAll.parse_blame: m.groupdict() is evaluated whether or not the
\* line matched.
parse_blame(blame) ==
  LET m == pattern_match(blame)
  IN  IF m = None THEN AttributeError ELSE groupdict(blame, m)

(***************************************************************************)
(* Raw blame lines the external command may print.                         *)
(***************************************************************************)
LineScenarioA == <<"a", "b", "c", "1", "2", "3", "4", " ", "f", "i", "l", "e", ".", "p", "y", " ", " ", " ", " ", " ", " ", " ", " ", "(", "A", "l", "i", "c", "e", " ", "S", "m", "i", "t", "h", " ", "2", "0", "2", "1", "-", "0", "5", "-", "0", "1", " ", "1", "0", ":", "0", "0", ":", "0", "0", " ", "+", "0", "0", "0", "0", " ", "3", ")", " ", "s", "o", "m", "e", " ", "c", "o", "d", "e">>
LineBoundary == <<"^", "d", "e", "a", "d", "b", "e", "e", "f", " ", "f", ".", "p", "y", " ", "(", "A", "l", " ", "2", "0", "2", "0", "-", "0", "1", "-", "0", "2", " ", "0", "3", ":", "0", "4", ":", "0", "5", " ", "-", "0", "5", "3", "0", " ", "1", ")", " ", "x">>
LineBob == <<"1", "a", "2", "b", "3", "c", "4", "d", " ", "f", ".", "p", "y", " ", "(", "B", "o", "b", " ", "J", "o", "n", "e", "s", " ", "2", "0", "1", "9", "-", "1", "2", "-", "3", "1", " ", "2", "3", ":", "5", "9", ":", "5", "9", " ", "+", "0", "1", "0", "0", " ", "2", ")", " ", "y">>
LineFatal == <<"f", "a", "t", "a", "l", ":", " ", "n", "o", " ", "s", "u", "c", "h", " ", "p", "a", "t", "h">>
LineIndented == <<" ", "a", "b", "c", "1", "2", "3", "4", " ", "f", ".", "p", "y", " ", "(", "A", "l", " ", "2", "0", "2", "1", "-", "0", "5", "-", "0", "1", " ", "1", "0", ":", "0", "0", ":", "0", "0", " ", "+", "0", "0", "0", "0", " ", "3", ")", " ", "x">>

RawLines == {LineScenarioA, LineBoundary, LineBob, LineFatal, LineIndented}

\* Every output of at most MaxLines lines: blame_output.splitlines().
RECURSIVE SeqsUpTo(_, _)
SeqsUpTo(S, n) ==
  IF n = 0 THEN {<<>>}
  ELSE LET shorter == SeqsUpTo(S, n - 1)
       IN  shorter \cup {Append(q, e) : q \in {r \in shorter : Len(r) = n - 1}, e \in S}

Outputs == SeqsUpTo(RawLines, MaxLines)

\* parse_blame on every line the command may print.
ParseTable == [l \in RawLines |-> parse_blame(l)]

(***************************************************************************)
(* The file system and the package settings get_blame reads.              *)
(* A path is the tuple of its components.                                  *)
(***************************************************************************)
\* symbolic links of the file system: link path -> absolute target
Symlinks ==
  (<<"home", "link.py">> :> <<"repo", "f.py">>) @@ (<<"lnk">> :> <<"repo", "sub">>)

Paths ==
  {<<"repo", "f.py">>, <<"home", "link.py">>, <<"lnk", "g.py">>,
   <<"repo", "sub", "g.py">>, <<"home", "notes.txt">>}

\* the file of the view in the runs of the commands
OpenFile == <<"repo", "f.py">>

Flags == {"-M", "-C", "--since=1.year"}
FlagSeqs == SeqsUpTo(Flags, MaxFlags)

\* os.path.basename
basename(p) == p[Len(p)]
\* os.path.dirname
dirname(p) == SubSeq(p, 1, Len(p) - 1)

\* os.path.realpath: resolve symbolic links component by component.
RECURSIVE Resolve(_, _)
Resolve(done, rest) ==
  IF rest = <<>> THEN done
  ELSE LET cand == Append(done, Head(rest))
       IN  IF cand \in DOMAIN Symlinks
           THEN Resolve(<<>>, Symlinks[cand] \o Tail(rest))
           ELSE Resolve(cand, Tail(rest))
realpath(p) == Resolve(<<>>, p)

\* A slip in get_blame: the extra flags appended after the path separator.
get_blame_cmd_line_FlagsLast(p, custom) ==
  <<"git", "blame", "--show-name", "--minimal", "-w">>
    \o <<"--", basename(p)>> \o custom

\* get_blame, up to the call of subprocess.check_output: the command line.
get_blame_cmd_line(p, custom) ==
  <<"git", "blame", "--show-name", "--minimal", "-w">> \o custom
    \o <<"--", basename(p)>>
\* get_blame: the cwd argument of subprocess.check_output.
get_blame_cwd(p) == dirname(realpath(p))

(***************************************************************************)
(* Formatting of the phantoms (BlameShowAll.run, lines 54-73).             *)
(***************************************************************************)
DigitValue(c) == CHOOSE v \in 0..9 : <<"0", "1", "2", "3", "4", "5", "6", "7", "8", "9">>[v + 1] = c
\* int(str)
RECURSIVE int(_)
int(str) ==
  IF str = <<>> THEN 0
  ELSE 10 * int(SubSeq(str, 1, Len(str) - 1)) + DigitValue(str[Len(str)])

\* max(len(b["author"]) for b in blames)
max_author_len(bs) ==
  CHOOSE m \in {Len(bs[i].author) : i \in DOMAIN bs} :
    \A i \in DOMAIN bs : Len(bs[i].author) <= m

\* one padding unit of the user column
NBSP == "&nbsp;"
\* "&nbsp;" * n
Repeat(unit, n) == [i \in 1..n |-> unit]

\* get_line_point: the region of a row of the view, identified by the row.
get_line_point(line) == [row |-> line]

\* A slip in the formatting: the author is not padded.
MakePhantom_NoPad(blame, maxlen) ==
  [region |-> get_line_point(int(blame.line_number) - 1),
   sha |-> blame.sha,
   user |-> blame.author,
   date |-> blame.date,
   time |-> blame.time]

\* The phantom built for one blame (lines 56-72).
MakePhantom(blame, maxlen) ==
  LET line_number == int(blame.line_number)
      author == blame.author
  IN  [region |-> get_line_point(line_number - 1),
       sha |-> blame.sha,
       user |-> author \o Repeat(NBSP, maxlen - Len(author)),
       date |-> blame.date,
       time |-> blame.time]

\* The loop of lines 54-73.
MakePhantoms(bs) ==
  LET maxlen == max_author_len(bs)
  IN  [i \in DOMAIN bs |-> MakePhantom(bs[i], maxlen)]

(***************************************************************************)
(* State.                                                                  *)
(***************************************************************************)
VARIABLES
  rendered,      \* the view's phantoms under PHANTOM_KEY_ALL
  settings,      \* the view's settings bag (only the displayed key)
  pattern,       \* self.pattern: "None" or "compiled"
  pc,            \* position of BlameShowAll.run
  phantoms,      \* run's local list phantoms
  blame_output,  \* run's local blame_output.splitlines()
  parsed,        \* the values parse_blame returned for those lines
  path,          \* view.file_name()
  custom_flags,  \* the configured extra blame flags
  cmd_line,      \* command of the last subprocess.check_output call
  cwd,           \* its working directory
  pending,       \* modification notifications queued for the listener
  hpc,           \* position of on_modified_async
  log            \* the two latest events, oldest first

vars == <<rendered, settings, pattern, pc, phantoms, blame_output, parsed,
          path, custom_flags, cmd_line, cwd, pending, hpc, log>>

runLocals == <<phantoms, blame_output, parsed>>
invocation == <<path, custom_flags, cmd_line, cwd>>

\* settings.get(key, default)
SettingsGet(key, default) ==
  IF key \in DOMAIN settings THEN settings[key] ELSE default
\* settings.set(key, value)
SettingsSet(key, value) ==
  settings' = [k \in DOMAIN settings \cup {key} |-> IF k = key THEN value ELSE settings[k]]
\* settings.erase(key)
SettingsErase(key) ==
  settings' = [k \in DOMAIN settings \ {key} |-> settings[k]]

Displayed == SettingsGet(SETTING_PHANTOM_ALL_DISPLAYED, FALSE)

Record(event) == log' = <<log[2], event>>

Init ==
  /\ rendered = <<>>
  /\ settings = <<>>
  /\ pattern = "None"
  /\ pc = "idle"
  /\ phantoms = <<>>
  /\ blame_output = <<>>
  /\ parsed = <<>>
  /\ path = OpenFile
  /\ custom_flags = <<>>
  /\ cmd_line = <<>>
  /\ cwd = <<>>
  /\ pending = 0
  /\ hpc = "idle"
  /\ log = <<"init", "init">>

(***************************************************************************)
(* BlameShowAll.run, one action per call into the host.                    *)
(***************************************************************************)
\* lines 26-27: view_is_suitable(self.view) is false.
RunUnsuitable ==
  /\ pc = "idle"
  /\ Record("unsuitable")
  /\ UNCHANGED <<rendered, settings, pattern, pc, runLocals, invocation, pending, hpc>>

\* lines 26-30: the view is suitable; erase_phantoms; phantoms = [].
RunBegin ==
  /\ pc = "idle"
  /\ rendered' = <<>>
  /\ phantoms' = <<>>
  /\ blame_output' = <<>>
  /\ parsed' = <<>>
  /\ cmd_line' = <<>>
  /\ cwd' = <<>>
  /\ pc' = "check"
  /\ UNCHANGED <<settings, pattern, path, custom_flags, pending, hpc, log>>

\* A slip in run: the displayed setting is not consulted.
RunCheck_NoToggle ==
  /\ pc = "check"
  /\ pc' = "blame"
  /\ UNCHANGED <<rendered, settings, pattern, runLocals, invocation, pending, hpc, log>>

\* line 33: read the displayed setting.
RunCheck ==
  /\ pc = "check"
  /\ pc' = IF Displayed THEN "toggle_update" ELSE "blame"
  /\ UNCHANGED <<rendered, settings, pattern, runLocals, invocation, pending, hpc, log>>

\* line 34: self.phantom_set.update(phantoms), phantoms being empty.
RunToggleUpdate ==
  /\ pc = "toggle_update"
  /\ rendered' = phantoms
  /\ pc' = "toggle_set"
  /\ UNCHANGED <<settings, pattern, runLocals, invocation, pending, hpc, log>>

\* lines 35-36: set the setting to False and return.
RunToggleSet ==
  /\ pc = "toggle_set"
  /\ SettingsSet(SETTING_PHANTOM_ALL_DISPLAYED, FALSE)
  /\ pc' = "idle"
  /\ Record("toggled_off")
  /\ UNCHANGED <<rendered, pattern, runLocals, invocation, pending, hpc>>

\* get_blame, lines 89-98: the call of subprocess.check_output.
check_output_call ==
  /\ cmd_line' = get_blame_cmd_line(path, custom_flags)
  /\ cwd' = get_blame_cwd(path)

\* lines 38-42: get_blame raises (non-zero exit, git not found).
RunBlameFails ==
  /\ pc = "blame"
  /\ check_output_call
  /\ pc' = "idle"
  /\ Record("invocation_failed")
  /\ UNCHANGED <<rendered, settings, pattern, runLocals, path, custom_flags, pending, hpc>>

\* The outcome of lines 44-52 for the parse results rs.
ParseOutcome(rs) ==
  IF \E i \in DOMAIN rs : rs[i] = AttributeError THEN "exception"
  ELSE IF rs = <<>> THEN "parse_empty"
  ELSE "parsed"

\* Lines 44-73 for every output: the parse results, the outcome and the
\* phantoms built.
RunTable ==
  [out \in Outputs |->
     LET rs == [i \in DOMAIN out |-> ParseTable[out[i]]]
         what == ParseOutcome(rs)
     IN  [parsed |-> rs, what |-> what,
          phantoms |-> IF what = "parsed" THEN MakePhantoms(rs) ELSE <<>>]]

\* lines 38-73: get_blame returns out; every line is parsed; the phantoms
\* are built.  Nothing of this touches the view.
RunBlame ==
  /\ pc = "blame"
  /\ check_output_call
  /\ \E out \in Outputs :
       LET rs == RunTable[out].parsed
           what == RunTable[out].what
       IN  /\ blame_output' = out
           /\ parsed' = rs
           /\ pattern' = IF out = <<>> THEN pattern ELSE "compiled"
           /\ IF what = "parsed"
              THEN /\ phantoms' = RunTable[out].phantoms
                   /\ pc' = "update"
                   /\ UNCHANGED log
              ELSE /\ phantoms' = <<>>
                   /\ pc' = "idle"
                   /\ Record(what)
  /\ UNCHANGED <<rendered, settings, path, custom_flags, pending, hpc>>

\* line 75: self.phantom_set.update(phantoms).
RunUpdate ==
  /\ pc = "update"
  /\ rendered' = phantoms
  /\ pc' = "set"
  /\ UNCHANGED <<settings, pattern, runLocals, invocation, pending, hpc, log>>

\* lines 76-78: set the setting to True.
RunSet ==
  /\ pc = "set"
  /\ SettingsSet(SETTING_PHANTOM_ALL_DISPLAYED, TRUE)
  /\ pc' = "idle"
  /\ Record("rendered")
  /\ UNCHANGED <<rendered, pattern, runLocals, invocation, pending, hpc>>

(***************************************************************************)
(* BlameEraseAll and the ways it is invoked.                               *)
(***************************************************************************)
\* BlameEraseAll.run
BlameEraseAll_run ==
  /\ rendered' = <<>>
  /\ UNCHANGED settings

\* The user runs the blame_erase_all command.
EraseCommand ==
  /\ pc = "idle"
  /\ BlameEraseAll_run
  /\ Record("erase")
  /\ UNCHANGED <<pattern, pc, runLocals, invocation, pending, hpc>>

Hrefs == {"close", "copy"}

\* BlameShowAll.on_phantom_close: the user follows a link of a phantom.
on_phantom_close ==
  /\ pc = "idle"
  /\ rendered # <<>>
  /\ \E href \in Hrefs :
       IF href = "close"
       THEN BlameEraseAll_run /\ Record("erase")
       ELSE Record("navigate") /\ UNCHANGED <<rendered, settings>>
  /\ UNCHANGED <<pattern, pc, runLocals, invocation, pending, hpc>>

(***************************************************************************)
(* BlameEraseAllListener.                                                  *)
(***************************************************************************)
\* BlameEraseAllListener.is_applicable
is_applicable == SettingsGet(SETTING_PHANTOM_ALL_DISPLAYED, FALSE)

\* The buffer is edited; the host queues on_modified_async for the
\* listeners attached to the view.
Edit ==
  /\ pc = "idle"
  /\ IF is_applicable
     THEN pending < MaxPending /\ pending' = pending + 1
     ELSE UNCHANGED pending
  /\ Record("edit")
  /\ UNCHANGED <<rendered, settings, pattern, pc, runLocals, invocation, hpc>>

\* on_modified_async, line 164: run_command("blame_erase_all").
HookErase ==
  /\ hpc = "idle"
  /\ pending > 0
  /\ pending' = pending - 1
  /\ BlameEraseAll_run
  /\ hpc' = "erase_setting"
  /\ Record("hook")
  /\ UNCHANGED <<pattern, pc, runLocals, invocation>>

\* A slip in the listener: the displayed setting is left as it is.
HookEraseSetting_KeepSetting ==
  /\ hpc = "erase_setting"
  /\ hpc' = "idle"
  /\ Record("hook")
  /\ UNCHANGED <<rendered, settings, pattern, pc, runLocals, invocation, pending>>

\* on_modified_async, line 165: erase the displayed setting.
HookEraseSetting ==
  /\ hpc = "erase_setting"
  /\ SettingsErase(SETTING_PHANTOM_ALL_DISPLAYED)
  /\ hpc' = "idle"
  /\ Record("hook")
  /\ UNCHANGED <<rendered, pattern, pc, runLocals, invocation, pending>>

\* The listener is no longer applicable when the notification is
\* delivered: the host does not call it.
HookDrop ==
  /\ hpc = "idle"
  /\ pending > 0
  /\ ~is_applicable
  /\ pending' = pending - 1
  /\ Record("hook_dropped")
  /\ UNCHANGED <<rendered, settings, pattern, pc, runLocals, invocation, hpc>>

Next ==
  \/ RunUnsuitable
  \/ RunBegin
  \/ RunCheck
  \/ RunToggleUpdate
  \/ RunToggleSet
  \/ RunBlameFails
  \/ RunBlame
  \/ RunUpdate
  \/ RunSet
  \/ EraseCommand
  \/ on_phantom_close
  \/ Edit
  \/ HookErase
  \/ HookEraseSetting
  \/ HookDrop

Spec == Init /\ [][Next]_vars

\* The steps when the host calls the listener for every notification it
\* has queued.
NextDelivered ==
  \/ RunUnsuitable
  \/ RunBegin
  \/ RunCheck
  \/ RunToggleUpdate
  \/ RunToggleSet
  \/ RunBlameFails
  \/ RunBlame
  \/ RunUpdate
  \/ RunSet
  \/ EraseCommand
  \/ on_phantom_close
  \/ Edit
  \/ HookErase
  \/ HookEraseSetting

\* The host eventually delivers every queued notification and the
\* listener, once called, runs to its end.
FairSpec ==
  Init /\ [][NextDelivered]_vars /\ WF_vars(HookErase) /\ WF_vars(HookEraseSetting)

(***************************************************************************)
(* get_blame alone: run has reached line 39 for any file and any           *)
(* configured flags.                                                       *)
(***************************************************************************)
InitGetBlame ==
  /\ rendered = <<>>
  /\ settings = <<>>
  /\ pattern = "None"
  /\ pc = "blame"
  /\ phantoms = <<>>
  /\ blame_output = <<>>
  /\ parsed = <<>>
  /\ path \in Paths
  /\ custom_flags \in FlagSeqs
  /\ cmd_line = <<>>
  /\ cwd = <<>>
  /\ pending = 0
  /\ hpc = "idle"
  /\ log = <<"init", "init">>

\* get_blame up to the start of the subprocess.
GetBlame ==
  /\ pc = "blame"
  /\ cmd_line = <<>>
  /\ check_output_call
  /\ UNCHANGED <<rendered, settings, pattern, pc, runLocals, path, custom_flags,
                 pending, hpc, log>>

NextGetBlame == GetBlame

SpecGetBlame == InitGetBlame /\ [][NextGetBlame]_vars

(***************************************************************************)
(* Properties.                                                             *)
(***************************************************************************)
Last == log[2]
Prev == log[1]

\* The line matches the grammar from its first character.
Matches(line) == CanMatch(prepare_pattern, line, 1, 1)
NoLineMatches == \A i \in DOMAIN blame_output : ~Matches(blame_output[i])

\* The latest event is the end of a render request that got an output from
\* the blame command.
ReachedParse ==
  pc = "idle" /\ Last \in {"parse_empty", "exception", "rendered"}

NoRecord == [kind |-> "no record"]

\* C1: for every line of the output that does not match the grammar,
\* parse_blame returns the 'no record' value and raises nothing.
C1_NoRecordForMalformed ==
  \A i \in DOMAIN parsed :
    ~Matches(blame_output[i]) => parsed[i] = NoRecord

\* C2: a render request whose blame output has no matching line ends by
\* reporting 'nothing parsed', with nothing rendered and the displayed
\* setting false.
C2_NothingParsedReported ==
  (ReachedParse /\ NoLineMatches)
    => (Last = "parse_empty" /\ rendered = <<>> /\ ~Displayed)

\* C3: a render request whose blame output mixes matching and non-matching
\* lines ends rendered, with one annotation per matching line and the
\* displayed setting true.
C3_MixedOutputRendered ==
  (/\ ReachedParse
   /\ \E i \in DOMAIN blame_output : Matches(blame_output[i])
   /\ \E i \in DOMAIN blame_output : ~Matches(blame_output[i]))
    => (/\ Last = "rendered"
        /\ Len(phantoms) = Len(SelectSeq(blame_output, Matches))
        /\ Displayed)

\* C4: right after an explicit erase request nothing is rendered and the
\* displayed setting is false.
C4_EraseClearsDisplayState ==
  (pc = "idle" /\ Last = "erase") => (rendered = <<>> /\ ~Displayed)

\* C5: once the notification of an edit made while annotations were
\* displayed is queued, a state follows in which nothing is rendered and the
\* displayed setting is not set.
C5_EditLeadsToCleared ==
  (pending > 0) ~> (rendered = <<>> /\ ~Displayed)

\* C5 witness: the listener has run to its end and the display is cleared.
C5_Witness ==
  /\ log = <<"hook", "hook">>
  /\ hpc = "idle"
  /\ pending = 0
  /\ rendered = <<>>
  /\ SETTING_PHANTOM_ALL_DISPLAYED \notin DOMAIN settings

\* C6: no render request ends rendered while the notification of an edit is
\* still queued or the listener is still running.
C6_HookBeforeRender ==
  Last = "rendered" => (pending = 0 /\ hpc = "idle")

\* C7: a render request on an error path (the blame command fails, or no
\* line of its output matches) ends with a reported error, not an
\* exception, with nothing rendered and the displayed setting false.
C7_ErrorPathsEndClean ==
  ((pc = "idle" /\ Last = "invocation_failed") \/ (ReachedParse /\ NoLineMatches))
    => (/\ Last \in {"invocation_failed", "parse_empty"}
        /\ rendered = <<>>
        /\ ~Displayed)

\* C8: every rendered user field is the author followed by padding units
\* only, as long as the longest author of the request; the longest author
\* gets no padding.
C8_AuthorPadding ==
  rendered # <<>> =>
    /\ Len(rendered) = Len(parsed)
    /\ \A i \in DOMAIN rendered :
         LET author == parsed[i].author
             user == rendered[i].user
         IN  /\ \A j \in DOMAIN parsed : Len(parsed[j].author) <= Len(user)
             /\ \E j \in DOMAIN parsed : Len(parsed[j].author) = Len(user)
             /\ SubSeq(user, 1, Len(author)) = author
             /\ \A j \in (Len(author) + 1)..Len(user) : user[j] = NBSP

\* C8 witness: "Al" rendered next to "Bob Jones", with seven padding units.
C8_Witness ==
  /\ Len(rendered) = 2
  /\ \E i \in DOMAIN rendered :
       rendered[i].user = <<"A", "l", NBSP, NBSP, NBSP, NBSP, NBSP, NBSP, NBSP>>
  /\ \E i \in DOMAIN rendered :
       rendered[i].user = <<"B", "o", "b", " ", "J", "o", "n", "e", "s">>

\* The command line get_blame executes is git blame --show-name --minimal
\* -w, the configured flags in order, --, the last component of the path.
CommandLineShape ==
  LET n == Len(custom_flags)
  IN  /\ Len(cmd_line) = n + 7
      /\ SubSeq(cmd_line, 1, 5) = <<"git", "blame", "--show-name", "--minimal", "-w">>
      /\ SubSeq(cmd_line, 6, n + 5) = custom_flags
      /\ cmd_line[n + 6] = "--"
      /\ cmd_line[n + 7] = path[Len(path)]

====
